---- MODULE Spec2Model ----
(***************************************************************************)
(* Model of the memoizing DPLL SAT solver of src/DPLL.js.                  *)
(*                                                                         *)
(* dpll(clauses, assignment) is a recursive JavaScript function with a     *)
(* process-wide cache `memo`.  The recursion is modelled as a machine with *)
(* an explicit call stack: one action per way the body of dpll leaves a    *)
(* frame (a return, or a recursive call), and one action per way a frame   *)
(* resumes after a recursive call has returned.                            *)
(***************************************************************************)
EXTENDS Integers, Sequences, FiniteSets

\* ---------------------------------------------------------------- bounds
\* Variables of the generated formulas are 1..NumVars.
NumVars == 2
\* Longest generated clause.
MaxClauseLen == 2
\* Most clauses in a generated formula.
MaxClauses == 2
\* Most literal occurrences in a generated formula.
MaxLiterals == 4
\* Frames the call stack holds before the engine throws a RangeError.
StackLimit == 6

\* ------------------------------------------------------------ assignments
\* A JavaScript assignment object is a function from its own keys to
\* booleans; `assignment[v] === undefined` is `v \notin DOMAIN assignment`.
EmptyAssignment == [k \in {} |-> TRUE]

\* The property name "undefined", which `{...assignment, [variable]: true}`
\* creates when `variable` is undefined.  No literal has this absolute value.
Undefined == 0 - 1

Abs(x) == IF x < 0 THEN 0 - x ELSE x

Min(S) == CHOOSE x \in S : \A y \in S : x <= y

\* assignment[Math.abs(lit)] === (lit > 0)
LitTrue(assignment, lit) ==
    /\ Abs(lit) \in DOMAIN assignment
    /\ assignment[Abs(lit)] = (lit > 0)

\* assignment[Math.abs(lit)] === (lit < 0)
LitFalse(assignment, lit) ==
    /\ Abs(lit) \in DOMAIN assignment
    /\ assignment[Abs(lit)] = (lit < 0)

\* assignment[Math.abs(lit)] === undefined
LitUnassigned(assignment, lit) == Abs(lit) \notin DOMAIN assignment

\* { ...assignment, [v]: b }
Extend(assignment, v, b) ==
    [k \in (DOMAIN assignment) \cup {v} |-> IF k = v THEN b ELSE assignment[k]]

\* ------------------------------------------------------------- cache keys
\* JSON.stringify(assignment): the own properties in the order JavaScript
\* enumerates them, integer keys ascending first, then string keys; each
\* rendered as the pair key:value.
RECURSIVE KeySeq(_, _)
KeySeq(assignment, S) ==
    IF S = {} THEN << >>
    ELSE LET ints == S \ {Undefined}
             k == IF ints # {} THEN Min(ints) ELSE Undefined
         IN  << <<k, assignment[k]>> >> \o KeySeq(assignment, S \ {k})

\* Mutant of Key: the object itself used as the property name, which
\* JavaScript renders as the same string for every assignment.
KeyOfObject(assignment) == << >>

Key(assignment) == KeySeq(assignment, DOMAIN assignment)

\* --------------------------------------------------------------- outcomes
\* dpll returns an assignment object or null.
Null == [sat |-> FALSE, assignment |-> EmptyAssignment]
Sat(assignment) == [sat |-> TRUE, assignment |-> assignment]

EmptyMemo == [k \in {} |-> Null]

\* memo[key] = outcome
Put(m, key, outcome) ==
    [k \in (DOMAIN m) \cup {key} |-> IF k = key THEN outcome ELSE m[k]]

\* ------------------------------------------------------ the checks of dpll
\* Mutant of AllSatisfied: `some` clause instead of `every` clause.
SomeSatisfied(cls, assignment) ==
    \E i \in 1..Len(cls) : \E j \in 1..Len(cls[i]) : LitTrue(assignment, cls[i][j])

\* clauses.every(clause => clause.some(lit => ... === (lit > 0)))
AllSatisfied(cls, assignment) ==
    \A i \in 1..Len(cls) : \E j \in 1..Len(cls[i]) : LitTrue(assignment, cls[i][j])

\* Mutant of SomeFalsified: a clause without literals is skipped.
SomeFalsifiedNonEmpty(cls, assignment) ==
    \E i \in 1..Len(cls) :
        /\ cls[i] # << >>
        /\ \A j \in 1..Len(cls[i]) : LitFalse(assignment, cls[i][j])

\* clauses.some(clause => clause.every(lit => ... === (lit < 0)))
SomeFalsified(cls, assignment) ==
    \E i \in 1..Len(cls) : \A j \in 1..Len(cls[i]) : LitFalse(assignment, cls[i][j])

\* clause.filter(lit => assignment[Math.abs(lit)] === undefined).length
UnassignedCount(clause, assignment) ==
    Cardinality({j \in 1..Len(clause) : LitUnassigned(assignment, clause[j])})

\* The indices of the clauses the predicate of clauses.find accepts.
UnitIndices(cls, assignment) ==
    {i \in 1..Len(cls) : UnassignedCount(cls[i], assignment) = 1}

HasUnit(cls, assignment) == UnitIndices(cls, assignment) # {}

\* clauses.find(...): the first such clause.
UnitClause(cls, assignment) == cls[Min(UnitIndices(cls, assignment))]

\* Mutant of UnitLit: the clause's first literal, bound or not.
UnitLitFirst(clause, assignment) == clause[1]

\* unitClause.find(lit => assignment[Math.abs(lit)] === undefined)
UnitLit(clause, assignment) ==
    clause[Min({j \in 1..Len(clause) : LitUnassigned(assignment, clause[j])})]

\* clauses.flat()
RECURSIVE Flat(_)
Flat(cls) == IF cls = << >> THEN << >> ELSE Head(cls) \o Flat(Tail(cls))

\* Mutant of BranchVariable: the literal itself, without Math.abs.
BranchVariableSigned(cls, assignment) ==
    LET flat == Flat(cls)
        open == {j \in 1..Len(flat) : LitUnassigned(assignment, flat[j])}
    IN  IF open = {} THEN Undefined ELSE flat[Min(open)]

\* const [variable] = clauses.flat().map(Math.abs).filter(v => ... === undefined)
BranchVariable(cls, assignment) ==
    LET flat == Flat(cls)
        open == {j \in 1..Len(flat) : LitUnassigned(assignment, flat[j])}
    IN  IF open = {} THEN Undefined ELSE Abs(flat[Min(open)])

\* ------------------------------------------------------------------ inputs
\* The clauses of the program's own example.
ExampleClauses == << <<1, 0 - 3, 4>>, <<0 - 1, 2>>, <<0 - 2, 3>>, <<0 - 4>> >>

\* Generated formulas: sequences of at most MaxClauses clauses holding at
\* most MaxLiterals literals in all; a clause lists at most MaxClauseLen
\* literals, each variable at most once, by increasing variable.
Literals == (0 - NumVars .. NumVars) \ {0}
LiteralsWithZero == 0 - NumVars .. NumVars

ClausesOver(lits) ==
    UNION {{c \in [1..n -> lits] : \A i \in 1..n : \A j \in 1..n :
                                      i < j => Abs(c[i]) < Abs(c[j])}
           : n \in 0..MaxClauseLen}

FormulasOver(lits) ==
    {f \in UNION {[1..n -> ClausesOver(lits)] : n \in 0..MaxClauses} :
        Len(Flat(f)) <= MaxLiterals}

\* The variables a formula mentions.
VarsOf(cls) ==
    UNION {{Abs(cls[i][j]) : j \in 1..Len(cls[i])} : i \in 1..Len(cls)}

\* Every assignment object over the given keys.
AssignmentsOver(keys) == UNION {[D -> BOOLEAN] : D \in SUBSET keys}

\* The assignments a top-level call on a generated formula is given: the
\* empty one (the default), or one variable already decided.
StartsOver(keys) ==
    {EmptyAssignment} \cup {Extend(EmptyAssignment, v, b) : <<v, b>> \in keys \X BOOLEAN}

\* ------------------------------------------------------------------- state
VARIABLES
    clauses,   \* the formula of the running solve
    start,     \* the assignment the top-level call was given
    fresh,     \* TRUE while the solve that began on the empty memo runs
    memo,      \* the process-wide cache
    stack,     \* the frames of dpll, outermost first
    mode,      \* "call": the top frame is at its first line; "return": a
               \* frame has just returned `ret` to the frame below it;
               \* "done": the outermost call has returned `ret`;
               \* "thrown": the solve ended in an uncaught RangeError
    ret,       \* the outcome being returned
    steps,     \* history: steps of dpll taken since the top-level call
    writes     \* history: assignments `memo[key] = ...` executed so far

vars == <<clauses, start, fresh, memo, stack, mode, ret, steps, writes>>

\* A frame: its assignment, what it waits for, and the variable it bound.
Frame(assignment) == [assignment |-> assignment, wait |-> "none", var |-> 0]

Top == stack[Len(stack)]
Pop == SubSeq(stack, 1, Len(stack) - 1)

\* The stack with its top frame marked as waiting for a recursive call that
\* binds variable v to b, and the callee's frame pushed.
Call(w, v, b) ==
    [stack EXCEPT ![Len(stack)] = [@ EXCEPT !.wait = w, !.var = v]]
        \o <<Frame(Extend(Top.assignment, v, b))>>

Entered ==
    /\ mode = "call"
    /\ stack # << >>

\* memo[key] !== undefined, for the key of the top frame.
Cached ==
    /\ Entered
    /\ Key(Top.assignment) \in DOMAIN memo

\* The top frame has missed the cache and passes the satisfaction check.
SatisfiedHere ==
    /\ Entered
    /\ Key(Top.assignment) \notin DOMAIN memo
    /\ AllSatisfied(clauses, Top.assignment)

\* The top frame has missed the cache and the satisfaction check, and passes
\* the conflict check.
ConflictHere ==
    /\ Entered
    /\ Key(Top.assignment) \notin DOMAIN memo
    /\ ~AllSatisfied(clauses, Top.assignment)
    /\ SomeFalsified(clauses, Top.assignment)

\* The top frame has passed the cache lookup and both base cases.
Searching ==
    /\ Entered
    /\ Key(Top.assignment) \notin DOMAIN memo
    /\ ~AllSatisfied(clauses, Top.assignment)
    /\ ~SomeFalsified(clauses, Top.assignment)

\* A frame has returned to the top frame.
Returned ==
    /\ mode = "return"
    /\ stack # << >>

\* The top frame returns `outcome`: to the frame below it, or, when it is the
\* outermost frame, to the caller of the solve (const result = dpll(clauses)).
Return(outcome) ==
    /\ stack' = Pop
    /\ mode' = IF Len(stack) = 1 THEN "done" ELSE "return"
    /\ ret' = outcome
    /\ steps' = steps + 1

\* memo[key] = outcome, for the key of the top frame.
Store(outcome) ==
    /\ memo' = Put(memo, Key(Top.assignment), outcome)
    /\ writes' = writes + 1

\* ----------------------------------------------------------------- actions
\* if (memo[key] !== undefined) return memo[key];
CacheHit ==
    /\ Cached
    /\ Return(memo[Key(Top.assignment)])
    /\ UNCHANGED <<clauses, start, fresh, memo, writes>>

\* Base case: every clause is satisfied.
Satisfied ==
    /\ SatisfiedHere
    /\ Store(Sat(Top.assignment))
    /\ Return(Sat(Top.assignment))
    /\ UNCHANGED <<clauses, start, fresh>>

\* Base case: some clause has every literal false.
Conflict ==
    /\ ConflictHere
    /\ Store(Null)
    /\ Return(Null)
    /\ UNCHANGED <<clauses, start, fresh>>

\* Unit propagation: return dpll(clauses, {...assignment, [|unitLit|]: unitLit > 0})
UnitPropagate ==
    /\ Searching
    /\ HasUnit(clauses, Top.assignment)
    /\ Len(stack) < StackLimit
    /\ LET unitLit == UnitLit(UnitClause(clauses, Top.assignment), Top.assignment)
       IN  stack' = Call("unit", Abs(unitLit), unitLit > 0)
    /\ ret' = Null
    /\ steps' = steps + 1
    /\ UNCHANGED <<clauses, start, fresh, memo, mode, writes>>

\* Branching, first operand of ||: dpll(clauses, {...assignment, [variable]: true})
Branch ==
    /\ Searching
    /\ ~HasUnit(clauses, Top.assignment)
    /\ Len(stack) < StackLimit
    /\ stack' = Call("true", BranchVariable(clauses, Top.assignment), TRUE)
    /\ ret' = Null
    /\ steps' = steps + 1
    /\ UNCHANGED <<clauses, start, fresh, memo, mode, writes>>

\* A recursive call is made with the stack full: RangeError, uncaught.
StackOverflow ==
    /\ Searching
    /\ Len(stack) >= StackLimit
    /\ stack' = << >>
    /\ mode' = "thrown"
    /\ ret' = Null
    /\ steps' = steps + 1
    /\ UNCHANGED <<clauses, start, fresh, memo, writes>>

\* The unit-propagation frame returns its callee's outcome, unmemoized.
ReturnUnit ==
    /\ Returned
    /\ Top.wait = "unit"
    /\ Return(ret)
    /\ UNCHANGED <<clauses, start, fresh, memo, writes>>

\* The true branch returned an assignment: || stops, memo[key] = result.
TrueBranchWins ==
    /\ Returned
    /\ Top.wait = "true"
    /\ ret.sat
    /\ Store(ret)
    /\ Return(ret)
    /\ UNCHANGED <<clauses, start, fresh>>

\* The true branch returned null: dpll(clauses, {...assignment, [variable]: false})
TryFalse ==
    /\ Returned
    /\ Top.wait = "true"
    /\ ~ret.sat
    /\ stack' = Call("false", Top.var, FALSE)
    /\ mode' = "call"
    /\ ret' = Null
    /\ steps' = steps + 1
    /\ UNCHANGED <<clauses, start, fresh, memo, writes>>

\* The false branch returned: memo[key] = result; return result.
FalseBranchDone ==
    /\ Returned
    /\ Top.wait = "false"
    /\ Store(ret)
    /\ Return(ret)
    /\ UNCHANGED <<clauses, start, fresh>>

\* A top-level call dpll(cls, assignment) made after the first solve of the
\* process has returned; memo is what that solve left.
Solve(cls, assignment) ==
    /\ mode = "done"
    /\ fresh
    /\ clauses' = cls
    /\ start' = assignment
    /\ fresh' = FALSE
    /\ stack' = <<Frame(assignment)>>
    /\ mode' = "call"
    /\ ret' = Null
    /\ steps' = 0
    /\ UNCHANGED <<memo, writes>>

\* dpll(clauses) is called again on the same formula.
Resolve == Solve(clauses, EmptyAssignment)

\* dpll is called on another formula.
SolveOther ==
    \E cls \in FormulasOver(Literals) : \E a \in StartsOver(1..NumVars) :
        Solve(cls, a)

\* ---------------------------------------------------------- specifications
InitOn(formulas, starts) ==
    /\ clauses \in formulas
    /\ start \in starts
    /\ fresh = TRUE
    /\ memo = EmptyMemo
    /\ stack = <<Frame(start)>>
    /\ mode = "call"
    /\ ret = Null
    /\ steps = 0
    /\ writes = 0

Step ==
    \/ CacheHit
    \/ Satisfied
    \/ Conflict
    \/ UnitPropagate
    \/ Branch
    \/ ReturnUnit
    \/ TrueBranchWins
    \/ TryFalse
    \/ FalseBranchDone

\* One process, one formula: a solve from a start on the empty memo, then
\* dpll(clauses) again.  The formula is a generated one, or the program's
\* example with any assignment over its variables.
Init ==
    \/ InitOn(FormulasOver(Literals), StartsOver(1..NumVars))
    \/ InitOn({ExampleClauses}, AssignmentsOver(VarsOf(ExampleClauses)))
Next == Step \/ Resolve
Spec == Init /\ [][Next]_vars

\* One process, two formulas sharing memo.
InitProcess == InitOn(FormulasOver(Literals), StartsOver(1..NumVars))
NextProcess == Step \/ SolveOther
SpecProcess == InitProcess /\ [][NextProcess]_vars

\* Formulas that may hold the literal 0.
InitZero == InitOn(FormulasOver(LiteralsWithZero), StartsOver(0..NumVars))
NextZero == Step \/ StackOverflow \/ Resolve
SpecZero == InitZero /\ [][NextZero]_vars

\* ------------------------------------------------- dpll as one evaluation
\* dpll(cls, assignment) run to completion on cache m: what it returns and
\* the cache it leaves.
RECURSIVE DpllRun(_, _, _)
DpllRun(cls, assignment, m) ==
    LET key == Key(assignment) IN
    IF key \in DOMAIN m
    THEN [outcome |-> m[key], memo |-> m]
    ELSE IF AllSatisfied(cls, assignment)
    THEN [outcome |-> Sat(assignment), memo |-> Put(m, key, Sat(assignment))]
    ELSE IF SomeFalsified(cls, assignment)
    THEN [outcome |-> Null, memo |-> Put(m, key, Null)]
    ELSE IF HasUnit(cls, assignment)
    THEN LET unitLit == UnitLit(UnitClause(cls, assignment), assignment)
         IN  DpllRun(cls, Extend(assignment, Abs(unitLit), unitLit > 0), m)
    ELSE LET variable == BranchVariable(cls, assignment)
             t == DpllRun(cls, Extend(assignment, variable, TRUE), m)
         IN  IF t.outcome.sat
             THEN [outcome |-> t.outcome, memo |-> Put(t.memo, key, t.outcome)]
             ELSE LET f == DpllRun(cls, Extend(assignment, variable, FALSE), t.memo)
                  IN  [outcome |-> f.outcome, memo |-> Put(f.memo, key, f.outcome)]

\* The machine and the evaluation agree on a solve that began on the empty memo.
MachineMatchesRun ==
    (mode = "done" /\ fresh) =>
        /\ ret = DpllRun(clauses, start, EmptyMemo).outcome
        /\ memo = DpllRun(clauses, start, EmptyMemo).memo

\* ------------------------------------------------------------------ claims
\* The total assignments over the formula's variables (and the start's) that
\* extend assignment a.
TotalExtensions(cls, a) ==
    {t \in [VarsOf(cls) \cup DOMAIN a -> BOOLEAN] : \A k \in DOMAIN a : t[k] = a[k]}

\* Assignment a makes some literal of every clause true: its variable is
\* bound, to TRUE for a positive literal and to FALSE for a negative one.
Models(cls, a) ==
    \A i \in 1..Len(cls) : \E j \in 1..Len(cls[i]) :
        \/ cls[i][j] > 0 /\ cls[i][j] \in DOMAIN a /\ a[cls[i][j]] = TRUE
        \/ cls[i][j] < 0 /\ (0 - cls[i][j]) \in DOMAIN a /\ a[0 - cls[i][j]] = FALSE

NoEmptyClause(cls) == \A i \in 1..Len(cls) : cls[i] # << >>
HasZeroLiteral(cls) == \E i \in 1..Len(cls) : \E j \in 1..Len(cls[i]) : cls[i][j] = 0

\* C1 (UNSAT correctness / completeness): a solve that began on the empty
\* memo, on a formula of non-empty clauses, returns null only if no total
\* assignment extending its starting assignment satisfies every clause.
C1_UnsatCorrect ==
    (mode = "done" /\ fresh /\ NoEmptyClause(clauses) /\ ~ret.sat) =>
        \A t \in TotalExtensions(clauses, start) : ~Models(clauses, t)

\* C2 (soundness): every assignment a call of dpll returns, at any depth and
\* by any path (satisfaction check, cache hit, unit propagation, branching),
\* makes some literal of every clause true.
C2_Sound ==
    (mode \in {"return", "done"} /\ ret.sat) => Models(clauses, ret.assignment)

\* C2 witness: a solve on the empty memo has returned, through a branching
\* frame, an assignment that extends its start.
C2_Witness ==
    /\ mode = "done"
    /\ fresh
    /\ ret.sat
    /\ writes >= 2
    /\ Len(clauses) >= 2
    /\ ret.assignment # start

\* C3 (scenario 3): on the example clauses, from the empty assignment and the
\* empty memo, dpll returns an assignment that satisfies the four clauses and
\* binds variable 4 to false.
C3_Example ==
    (mode = "done" /\ fresh /\ clauses = ExampleClauses /\ start = EmptyAssignment) =>
        /\ ret.sat
        /\ Models(clauses, ret.assignment)
        /\ 4 \in DOMAIN ret.assignment
        /\ ret.assignment[4] = FALSE

\* C4 (cache transparency): whatever earlier calls left in memo, a call of
\* dpll returns what the same call returns on the empty memo.
C4_CacheTransparent ==
    mode = "done" => ret = DpllRun(clauses, start, EmptyMemo).outcome

\* The most steps a solve over n open variables can take: three per node of
\* a binary call tree of depth n.
StepBound(n) == 3 * (2 ^ (n + 1) - 1)

\* The guards of the steps of dpll.  A frame at its first line is in
\* exactly one of the cases Cached, SatisfiedHere, ConflictHere, Searching;
\* the first three can always step, the last one while the stack has room.
CanStep ==
    \/ Entered /\ Len(stack) < StackLimit
    \/ Cached
    \/ SatisfiedHere
    \/ ConflictHere
    \/ Returned /\ Top.wait \in {"unit", "true", "false"}

\* C5 (termination): each frame's assignment binds strictly more variables
\* than its caller's, the recursion is never deeper than the number of
\* variables of the formula, a solve that has not returned can take its next
\* step, and the number of steps it has taken is bounded: every solve returns.
C5_Terminates ==
    /\ \A i \in 1..(Len(stack) - 1) :
          Cardinality(DOMAIN stack[i + 1].assignment)
              > Cardinality(DOMAIN stack[i].assignment)
    /\ Len(stack) - 1 <= Cardinality(VarsOf(clauses))
    /\ mode \in {"call", "return", "done"}
    /\ mode \in {"call", "return"} => CanStep
    /\ steps <= StepBound(Cardinality(VarsOf(clauses)))

\* C5 witness: the recursion is as deep as the formula has variables.
C5_Witness ==
    /\ Cardinality(VarsOf(clauses)) >= 2
    /\ Len(stack) - 1 = Cardinality(VarsOf(clauses))

\* C6 (degenerate formulas): from the empty assignment and the empty memo, a
\* formula holding an empty clause returns null and a formula without clauses
\* returns the empty assignment, both in the root call's single step.
C6_Degenerate ==
    (fresh /\ start = EmptyAssignment
        /\ (clauses = << >> \/ ~NoEmptyClause(clauses))) =>
        /\ Len(stack) <= 1
        /\ steps <= 1
        /\ mode \in {"call", "done"}
        /\ mode = "done" =>
              ret = IF clauses = << >> THEN Sat(EmptyAssignment) ELSE Null

\* C6 witness: null was returned for an empty clause that follows a clause
\* which is not empty.
C6_Witness ==
    /\ mode = "done"
    /\ fresh
    /\ start = EmptyAssignment
    /\ Len(clauses) >= 2
    /\ clauses[1] # << >>
    /\ clauses[Len(clauses)] = << >>
    /\ ret = Null

\* C7 (malformed input fails fast): for a formula holding the literal 0 no
\* step of the search runs, nothing is written to memo, and no outcome is
\* returned.
C7_RejectsZero ==
    HasZeroLiteral(clauses) =>
        /\ steps = 0
        /\ writes = 0
        /\ Len(stack) <= 1
        /\ mode # "done"

\* C8 (true unit clauses): in every frame that unit propagation left, the
\* clause it selected has exactly one literal with an unbound variable, every
\* other literal false, and no literal true.
C8_TrueUnit ==
    \A i \in 1..Len(stack) :
        stack[i].wait = "unit" =>
            LET a == stack[i].assignment
                c == UnitClause(clauses, a)
            IN  /\ Cardinality({j \in 1..Len(c) : Abs(c[j]) \notin DOMAIN a}) = 1
                /\ \A j \in 1..Len(c) :
                      Abs(c[j]) \in DOMAIN a => a[Abs(c[j])] = (c[j] < 0)

\* C9 (assignment growth): every frame's assignment is its caller's plus one
\* binding, for a variable of the formula the caller had not bound; the
\* caller's bindings are unchanged.
C9_Growth ==
    \A i \in 1..(Len(stack) - 1) :
        LET caller == stack[i].assignment
            callee == stack[i + 1].assignment
            v == stack[i].var
        IN  /\ v \in VarsOf(clauses)
            /\ v \notin DOMAIN caller
            /\ DOMAIN callee = DOMAIN caller \cup {v}
            /\ \A k \in DOMAIN caller : callee[k] = caller[k]

\* C9 witness: a branching frame is in its false branch and a
\* unit-propagation frame is on the stack as well.
C9_Witness ==
    /\ Len(stack) >= 3
    /\ \E i \in 1..(Len(stack) - 1) : stack[i].wait = "false"
    /\ \E i \in 1..(Len(stack) - 1) : stack[i].wait = "unit"

\* The top frame is about to execute memo[key] = result after branching.
BranchWritePending ==
    /\ Returned
    /\ \/ Top.wait = "true" /\ ret.sat
       \/ Top.wait = "false"

\* C10 (cache monotonicity): memo holds one entry per write executed, so no
\* write hit a present key and no entry was removed; and the write that
\* follows the recursive calls of a branching frame finds its key absent.
C10_CacheMonotone ==
    /\ Cardinality(DOMAIN memo) = writes
    /\ BranchWritePending => Key(Top.assignment) \notin DOMAIN memo

\* C10 witness: a branching frame whose two recursive calls have returned is
\* about to write, with entries from those calls in memo.
C10_Witness ==
    /\ Returned
    /\ Top.wait = "false"
    /\ Cardinality(DOMAIN memo) >= 2

====
